---------------------------- MODULE Spec2Model ----------------------------
(***************************************************************************)
(* A model of the POS administration server: the document store            *)
(* (server/mongodb-storage.ts), the passport session layer                 *)
(* (server/auth.ts) and the HTTP handlers (routes: registerRoutes).        *)
(*                                                                         *)
(* Every store call of a handler is one atomic step of the store; a        *)
(* handler that awaits several store calls is a sequence of actions, and   *)
(* other requests interleave between them (a Node event loop).             *)
(*                                                                         *)
(* Money is held in integer cents, a tax rate in tenths of a percent.      *)
(***************************************************************************)
EXTENDS Integers, Sequences, FiniteSets, TLC

(***************************************************************************)
(* Bounds of the model.                                                    *)
(***************************************************************************)
MaxInflight == 2     \* registration requests in flight at once
MaxStock == 2        \* largest stock a catalog request writes
MaxQty == 2          \* largest quantity of a line item

\* ids are `pos-<fresh>`, `admin-<n>`, `product-<fresh>`: a kind and a number
PosId(n) == <<"pos", n>>
PosIds == {PosId(1), PosId(2)}
ProductId(n) == <<"product", n>>
ProductIds == {ProductId(1), ProductId(2)}
Prices == {400}            \* "4.00"
TaxRates == {0, 85}        \* "0" and "8.5"
CartSizes == {0, 1, 2}     \* line items in a cart
Requests == {1, 2}         \* the checkout requests the till receives, in order of arrival
NoId == <<"none", 0>>
Usernames == {"u1", "u2"}
Passwords == {"pw1", "pw2"}
Salts == {"s1"}
AdminIds == {<<"admin", 1>>}
RegPasswords == {"pw1"}
Null == "null"
NoSession == [id |-> NoId, userType |-> "none"]
NoUser == [userType |-> "none"]

VARIABLES
  posSystems,    \* collection posSystems: id -> document
  posCount,      \* ids handed out so far (ids are fresh, never reused)
  sessions,      \* session store: the serialized users {id, userType}
  reg,           \* POST /api/pos/create requests between their two store calls: a bag of bodies
  cur,           \* the PUT /api/pos/currency request in flight
  products,      \* collection products: id -> document
  productCount,  \* product ids handed out so far
  transactions,  \* collection transactions, in insertion order
  checkout,      \* POST /api/pos/transactions requests in flight
  revoked,       \* history: businesses rejected or deleted while a session of theirs lived
  resp,          \* history: the response the last step sent, when its route is observed
  observe,       \* the routes whose responses the history records (fixed by the specification)
  edit,          \* the product update, delete or stock request between its two store calls
  stats          \* the GET /api/admin/stats request between its four counts

storeVars == <<products, productCount, transactions, checkout>>
vars == <<posSystems, posCount, sessions, reg, cur, products, productCount,
          transactions, checkout, revoked, resp, observe, edit, stats>>

(***************************************************************************)
(* Credential store (auth.ts).                                             *)
(***************************************************************************)
\* scrypt(password, salt, 64): a collision-free derivation
scrypt(password, salt) == <<"scrypt", password, salt>>

\* `${hash}.${salt}`, held as its two parts
hashPassword(password, salt) == [hashed |-> scrypt(password, salt), salt |-> salt]

\* the second part of stored.split(".") when the string holds no "."
Undefined == "undefined"

KeyLen == 64     \* bytes scrypt derives

\* a hash part that is not a derivation: hex text decoding to `bytes` bytes
hex(bytes) == <<"hex", bytes, "">>

\* Buffer.from(hashed, "hex").length
ByteLength(hashed) ==
  IF hashed[1] = "scrypt" THEN KeyLen
  ELSE IF hashed[2] = "64" THEN 64
  ELSE IF hashed[2] = "32" THEN 32
  ELSE 0

\* comparePasswords rejects: scrypt refuses an undefined salt (TypeError), and
\* timingSafeEqual refuses buffers of different lengths (RangeError)
comparePasswordsThrows(supplied, stored) ==
  \/ stored.salt = Undefined
  \/ ByteLength(stored.hashed) # KeyLen

\* the value comparePasswords resolves to when it does not reject
comparePasswords(supplied, stored) == scrypt(supplied, stored.salt) = stored.hashed

\* collection adminUsers: the seeded accounts, never changed by a route
adminUsers ==
  [a \in AdminIds |->
     [id |-> a, username |-> a[2], password |-> hashPassword("pw1", "s1")]]

(***************************************************************************)
(* Session layer (auth.ts).                                                *)
(***************************************************************************)
serializeUser(id, userType) == [id |-> id, userType |-> userType]

deserializeUserNoStatus(s) ==
  IF s.userType = "admin"
    THEN IF s.id \in DOMAIN adminUsers
           THEN [userType |-> "admin", id |-> s.id]
           ELSE NoUser
  ELSE IF s.userType = "pos"
    THEN IF s.id \in DOMAIN posSystems
           THEN [userType |-> "pos", id |-> s.id]
           ELSE NoUser
  ELSE NoUser

\* the principal a request carrying session s resolves to, read from the store
deserializeUser(s) ==
  IF s.userType = "admin"
    THEN IF s.id \in DOMAIN adminUsers
           THEN [userType |-> "admin", id |-> s.id]
           ELSE NoUser
  ELSE IF s.userType = "pos"
    THEN IF s.id \in DOMAIN posSystems /\ posSystems[s.id].status = "approved"
           THEN [userType |-> "pos", id |-> s.id]
           ELSE NoUser
  ELSE NoUser

\* a guard that lets any logged-in user through
requirePOSAnyUser(s) == deserializeUser(s).userType # "none"

requireAdmin(s) == deserializeUser(s).userType = "admin"

requirePOS(s) == deserializeUser(s).userType = "pos"

\* passport drops the user of a session that deserializes to false
SessionsAfter(s) ==
  IF s \in sessions /\ deserializeUser(s) = NoUser THEN sessions \ {s} ELSE sessions

RevokedAfter(s) ==
  IF s \in sessions /\ deserializeUser(s) = NoUser /\ s.userType = "pos"
    THEN revoked \ {s.id} ELSE revoked

Carried == sessions \cup {NoSession}

IdleEdit == [pc |-> "idle", route |-> "none", id |-> NoId, by |-> NoSession, body |-> [none |-> 0]]

NoResp ==
  [route |-> "none", code |-> 0, id |-> NoId, by |-> NoSession, rev |-> FALSE, arg |-> <<>>]

\* the response to a request of `route` about `id` that carried session `by` and input `arg`
ReplyWith(route, code, id, by, arg) ==
  IF <<route, code>> \in observe
    THEN [route |-> route, code |-> code, id |-> id, by |-> by,
          rev |-> by.userType = "pos" /\ by.id \in revoked, arg |-> arg]
    ELSE NoResp

Reply(route, code, id, by) == ReplyWith(route, code, id, by, <<>>)

(***************************************************************************)
(* Store operations on posSystems (mongodb-storage.ts).                    *)
(***************************************************************************)
\* findOne({username}): the first matching document in insertion order, if any
getPOSSystemByUsername(username) ==
  LET found == {i \in DOMAIN posSystems : posSystems[i].username = username}
  IN {i \in found : \A j \in found : i[2] <= j[2]}

createPOSSystemApproved(id, system) ==
  (id :> [username |-> system.username, password |-> system.password,
          status |-> "approved", currencySymbol |-> "P",
          approvedAt |-> "date", approvedBy |-> Null, taxRate |-> 0])
  @@ posSystems

\* {...system, id, status: 'pending', ..., approvedAt: null, approvedBy: null, taxRate: '0'}
createPOSSystem(id, system) ==
  (id :> [username |-> system.username, password |-> system.password,
          status |-> "pending", currencySymbol |-> "P",
          approvedAt |-> Null, approvedBy |-> Null, taxRate |-> 0])
  @@ posSystems

\* findOneAndUpdate({id}, {$set: update}); an undefined approvedBy is stored as null
updatePOSSystemStatus(id, status, approvedBy) ==
  IF id \notin DOMAIN posSystems THEN posSystems
  ELSE IF status = "approved"
    THEN [posSystems EXCEPT ![id].status = status,
                            ![id].approvedAt = "date",
                            ![id].approvedBy = approvedBy]
  ELSE IF status = "rejected"
    THEN [posSystems EXCEPT ![id].status = status,
                            ![id].approvedAt = Null,
                            ![id].approvedBy = Null]
  ELSE [posSystems EXCEPT ![id].status = status]

\* deleteOne({id}) on posSystems, and nothing else
deletePOSSystem(id) == [i \in DOMAIN posSystems \ {id} |-> posSystems[i]]


(***************************************************************************)
(* Registration: POST /api/pos/create.  The username check and the insert  *)
(* are two store calls with the password hashing awaited between them.     *)
(***************************************************************************)
InFlight == {<<u, pw>> : u \in Usernames, pw \in RegPasswords}

RECURSIVE Sum(_, _)
Sum(f, S) == IF S = {} THEN 0 ELSE LET x == CHOOSE y \in S : TRUE
                                   IN f[x] + Sum(f, S \ {x})

RegisterCheck(username, password, confirmPassword) ==
  /\ Sum(reg, InFlight) < MaxInflight
  /\ IF password # confirmPassword
       THEN /\ resp' = Reply("create", 400, NoId, NoSession)
            /\ UNCHANGED reg
     ELSE IF getPOSSystemByUsername(username) # {}
       THEN /\ resp' = Reply("create", 400, NoId, NoSession)
            /\ UNCHANGED reg
     ELSE /\ reg' = [reg EXCEPT ![<<username, password>>] = @ + 1]
          /\ resp' = NoResp
  /\ UNCHANGED <<observe, edit, stats, posSystems, posCount, sessions, cur, revoked, storeVars>>

\* a status field the request body may carry (Null: none)
BodyStatus == {Null, "approved"}

\* posCreationSchema.parse: the fields the schema names; any other is stripped
posCreationSchema(body) == [f \in {"username", "password"} |-> body[f]]

\* the second half of the handler.  No step reads what the body carried beyond the
\* schema's fields, so that part of the body is drawn here, where the response records it.
RegisterCreate(username, password) ==
  /\ reg[<<username, password>>] > 0
  /\ PosId(posCount + 1) \in PosIds
  /\ \E salt \in Salts, status \in BodyStatus :
       LET data == posCreationSchema([username |-> username, password |-> password,
                                      status |-> status])
       IN /\ posSystems' = createPOSSystem(PosId(posCount + 1),
                              [username |-> data.username,
                               password |-> hashPassword(data.password, salt)])
          /\ resp' = ReplyWith("create", 201, PosId(posCount + 1), NoSession, <<status>>)
  /\ posCount' = posCount + 1
  /\ reg' = [reg EXCEPT ![<<username, password>>] = @ - 1]
  /\ UNCHANGED <<observe, edit, stats, sessions, cur, revoked, storeVars>>

(***************************************************************************)
(* Login and logout (auth.ts).                                             *)
(***************************************************************************)
AdminLogin(username, password) ==
  /\ LET found == {a \in DOMAIN adminUsers : adminUsers[a].username = username}
     IN IF found = {}
          THEN /\ resp' = Reply("admin-login", 401, NoId, NoSession)
               /\ UNCHANGED sessions
          ELSE \E a \in found :
                 IF comparePasswordsThrows(password, adminUsers[a].password)
                   THEN /\ resp' = Reply("admin-login", 500, NoId, NoSession)
                        /\ UNCHANGED sessions
                 ELSE IF ~comparePasswords(password, adminUsers[a].password)
                   THEN /\ resp' = Reply("admin-login", 401, NoId, NoSession)
                        /\ UNCHANGED sessions
                   ELSE /\ sessions' = sessions \cup {serializeUser(a, "admin")}
                        /\ resp' = Reply("admin-login", 200, a, serializeUser(a, "admin"))
  /\ UNCHANGED <<observe, edit, stats, posSystems, posCount, reg, cur, revoked, storeVars>>

posStrategyNoStatus(i, password) == comparePasswords(password, posSystems[i].password)

\* the "pos" strategy on the document found: the status, then the password
posStrategy(i, password) ==
  IF posSystems[i].status # "approved" THEN FALSE
  ELSE comparePasswords(password, posSystems[i].password)

\* the "pos" strategy ends in its catch block, done(error): the status passed and
\* comparePasswords rejected
posStrategyError(i, password) ==
  /\ posSystems[i].status = "approved"
  /\ comparePasswordsThrows(password, posSystems[i].password)

\* POST /api/pos/login: findOne by username, the strategy, then the session.  The
\* findOne is the login's only store call, so the login is one step at that read.
POSLogin(username, password) ==
  /\ LET found == getPOSSystemByUsername(username)
     IN IF found = {}
          THEN /\ resp' = ReplyWith("pos-login", 401, NoId, NoSession,
                                     <<username, password>>)
               /\ UNCHANGED sessions
          ELSE \E i \in found :
                 IF posStrategyError(i, password)
                   THEN /\ resp' = ReplyWith("pos-login", 500, i, NoSession,
                                              <<username, password>>)
                        /\ UNCHANGED sessions
                 ELSE IF ~posStrategy(i, password)
                   THEN /\ resp' = ReplyWith("pos-login", 401, i, NoSession,
                                              <<username, password>>)
                        /\ UNCHANGED sessions
                   ELSE /\ sessions' = sessions \cup {serializeUser(i, "pos")}
                        /\ resp' = ReplyWith("pos-login", 200, i, serializeUser(i, "pos"),
                                              <<username, password>>)
  /\ UNCHANGED <<observe, edit, stats, posSystems, posCount, reg, cur, revoked, storeVars>>

Logout(s) ==
  /\ s \in sessions
  /\ sessions' = sessions \ {s}
  /\ revoked' = IF s.userType = "pos" THEN revoked \ {s.id} ELSE revoked
  /\ resp' = Reply("logout", 200, NoId, s)
  /\ UNCHANGED <<observe, edit, stats, posSystems, posCount, reg, cur, storeVars>>

(***************************************************************************)
(* Approval workflow: the admin routes.                                    *)
(***************************************************************************)
Approve(s, id) ==
  /\ IF ~requireAdmin(s)
       THEN /\ resp' = Reply("approve", 401, id, s)
            /\ UNCHANGED posSystems
     ELSE /\ posSystems' = updatePOSSystemStatus(id, "approved", deserializeUser(s).id)
          /\ resp' = Reply("approve", IF id \in DOMAIN posSystems THEN 200 ELSE 404, id, s)
  /\ sessions' = SessionsAfter(s)
  /\ revoked' = RevokedAfter(s)
  /\ UNCHANGED <<observe, edit, stats, posCount, reg, cur, storeVars>>

Reject(s, id) ==
  /\ IF ~requireAdmin(s)
       THEN /\ resp' = Reply("reject", 401, id, s)
            /\ UNCHANGED posSystems
            /\ revoked' = RevokedAfter(s)
     ELSE /\ posSystems' = updatePOSSystemStatus(id, "rejected", deserializeUser(s).id)
          /\ resp' = Reply("reject", IF id \in DOMAIN posSystems THEN 200 ELSE 404, id, s)
          /\ revoked' = IF /\ id \in DOMAIN posSystems
                           /\ posSystems[id].status = "approved"
                           /\ serializeUser(id, "pos") \in sessions
                          THEN revoked \cup {id} ELSE revoked
  /\ sessions' = SessionsAfter(s)
  /\ UNCHANGED <<observe, edit, stats, posCount, reg, cur, storeVars>>

DeletePOS(s, id) ==
  /\ IF ~requireAdmin(s)
       THEN /\ resp' = Reply("delete", 401, id, s)
            /\ UNCHANGED posSystems
            /\ revoked' = RevokedAfter(s)
     ELSE /\ posSystems' = deletePOSSystem(id)
          /\ resp' = Reply("delete", IF id \in DOMAIN posSystems THEN 200 ELSE 404, id, s)
          /\ revoked' = IF /\ id \in DOMAIN posSystems
                           /\ serializeUser(id, "pos") \in sessions
                          THEN revoked \cup {id} ELSE revoked
  /\ sessions' = SessionsAfter(s)
  /\ UNCHANGED <<observe, edit, stats, posCount, reg, cur, storeVars>>

(***************************************************************************)
(* The admin-only reads: GET /api/admin/stats, GET /api/admin/pos-systems. *)
(***************************************************************************)
GetAdminStats(s) ==
  /\ resp' = Reply("stats", IF requireAdmin(s) THEN 200 ELSE 401, NoId, s)
  /\ sessions' = SessionsAfter(s)
  /\ revoked' = RevokedAfter(s)
  /\ UNCHANGED <<observe, edit, stats, posSystems, posCount, reg, cur, storeVars>>

\* posSystems.countDocuments(filter): all documents, or those of one status
countDocuments(status) ==
  Cardinality({i \in DOMAIN posSystems : status = Null \/ posSystems[i].status = status})

\* the filters of getAdminStats' four counts, in the order they are awaited
StatsFilters == <<Null, "pending", "approved", "rejected">>

IdleStats == [pc |-> "idle", by |-> NoSession, counts |-> <<>>]

\* GET /api/admin/stats with its store calls apart: the guard ...
StatsBegin(s) ==
  /\ stats.pc = "idle"
  /\ IF ~requireAdmin(s)
       THEN /\ resp' = Reply("stats", 401, NoId, s)
            /\ UNCHANGED stats
       ELSE /\ stats' = [pc |-> "count", by |-> s, counts |-> <<>>]
            /\ resp' = NoResp
  /\ sessions' = SessionsAfter(s)
  /\ revoked' = RevokedAfter(s)
  /\ UNCHANGED <<observe, edit, posSystems, posCount, reg, cur, storeVars>>

\* ... then one countDocuments; the fourth is followed by res.json(stats)
StatsCount ==
  /\ stats.pc = "count"
  /\ LET counts == Append(stats.counts, countDocuments(StatsFilters[Len(stats.counts) + 1]))
     IN IF Len(counts) < Len(StatsFilters)
          THEN /\ stats' = [stats EXCEPT !.counts = counts]
               /\ resp' = NoResp
          ELSE /\ stats' = IdleStats
               /\ resp' = ReplyWith("stats", 200, NoId, stats.by, counts)
  /\ UNCHANGED <<observe, edit, posSystems, posCount, sessions, reg, cur, revoked, storeVars>>

(***************************************************************************)
(* A POS-only route with no store write: GET /api/pos/products.            *)
(***************************************************************************)
\* products.find({posId}): the ids of the documents returned
getProductsByPOSId(posId) == {p \in DOMAIN products : products[p].posId = posId}

GetProducts(s) ==
  /\ resp' = IF requirePOS(s)
              THEN ReplyWith("products", 200, s.id, s, <<getProductsByPOSId(s.id)>>)
              ELSE Reply("products", 401, s.id, s)
  /\ sessions' = SessionsAfter(s)
  /\ revoked' = RevokedAfter(s)
  /\ UNCHANGED <<observe, edit, stats, posSystems, posCount, reg, cur, storeVars>>

(***************************************************************************)
(* PUT /api/pos/currency: the guard, getPOSSystem, then                    *)
(* updatePOSSystemStatus(posId, system.status) with no approvedBy.         *)
(***************************************************************************)
IdleCur == [pc |-> "idle", id |-> NoId, status |-> Null, symbol |-> Null]

\* the currencySymbol values a request body carries
Symbols == {"", " ", "$"}

\* String.prototype.trim on those values
trim(str) == IF str = " " THEN "" ELSE str

CurrencyBegin(s, currencySymbol) ==
  /\ cur.pc = "idle"
  /\ IF ~requirePOS(s)
       THEN /\ resp' = Reply("currency", 401, s.id, s)
            /\ UNCHANGED cur
     ELSE IF currencySymbol = "" \/ trim(currencySymbol) = ""
       THEN /\ resp' = ReplyWith("currency", 400, s.id, s, <<currencySymbol>>)
            /\ UNCHANGED cur
     ELSE /\ cur' = [pc |-> "get", id |-> s.id, status |-> Null, symbol |-> currencySymbol]
          /\ resp' = NoResp
  /\ sessions' = SessionsAfter(s)
  /\ revoked' = RevokedAfter(s)
  /\ UNCHANGED <<observe, edit, stats, posSystems, posCount, reg, storeVars>>

CurrencyRead ==
  /\ cur.pc = "get"
  /\ IF cur.id \notin DOMAIN posSystems
       THEN /\ cur' = IdleCur
            /\ resp' = Reply("currency", 404, cur.id, serializeUser(cur.id, "pos"))
       ELSE /\ cur' = [cur EXCEPT !.pc = "set", !.status = posSystems[cur.id].status]
            /\ resp' = NoResp
  /\ UNCHANGED <<observe, edit, stats, posSystems, posCount, sessions, reg, revoked, storeVars>>

CurrencyWrite ==
  /\ cur.pc = "set"
  /\ posSystems' = updatePOSSystemStatus(cur.id, cur.status, Null)
  /\ cur' = IdleCur
  /\ resp' = ReplyWith("currency", 200, cur.id, serializeUser(cur.id, "pos"), <<cur.symbol>>)
  /\ UNCHANGED <<observe, edit, stats, posCount, sessions, reg, revoked, storeVars>>


(***************************************************************************)
(* Store operations on products and transactions (mongodb-storage.ts).     *)
(***************************************************************************)
\* a decrement whose filter does not look at the stock
reduceProductStockUnchecked(productId, quantity) ==
  IF productId \in DOMAIN products
    THEN [modified |-> quantity # 0,
          products |-> [products EXCEPT ![productId].stock = @ - quantity]]
    ELSE [modified |-> FALSE, products |-> products]

\* a decrement that reports success for an id no document has
reduceProductStockUpsert(productId, quantity) ==
  IF productId \notin DOMAIN products
    THEN [modified |-> TRUE, products |-> products]
  ELSE IF products[productId].stock >= quantity
    THEN [modified |-> quantity # 0,
          products |-> [products EXCEPT ![productId].stock = @ - quantity]]
    ELSE [modified |-> FALSE, products |-> products]

\* updateOne({id, stock: {$gte: quantity}}, {$inc: {stock: -quantity}}):
\* one conditional update; modifiedCount tells whether the document changed
reduceProductStock(productId, quantity) ==
  IF productId \in DOMAIN products /\ products[productId].stock >= quantity
    THEN [modified |-> quantity # 0,
          products |-> [products EXCEPT ![productId].stock = @ - quantity]]
    ELSE [modified |-> FALSE, products |-> products]

\* stock: product.stock || 0
createProduct(id, product) ==
  (id :> [posId |-> product.posId, price |-> product.price,
          stock |-> product.stock, isActive |-> "true"])
  @@ products

\* findOneAndUpdate({id}, {$set: updates}): the fields of the body overwrite the document's
updateProduct(id, updates) ==
  IF id \notin DOMAIN products THEN products
  ELSE [products EXCEPT ![id] =
          [f \in DOMAIN products[id] |->
             IF f \in DOMAIN updates THEN updates[f] ELSE products[id][f]]]

deleteProduct(id) == [i \in DOMAIN products \ {id} |-> products[i]]

updateProductStock(productId, newStock) ==
  IF productId \notin DOMAIN products THEN products
  ELSE [products EXCEPT ![productId].stock = newStock]

updatePOSSystem(id, updates) ==
  IF id \notin DOMAIN posSystems THEN posSystems
  ELSE [posSystems EXCEPT ![id] =
          [f \in DOMAIN posSystems[id] |->
             IF f \in DOMAIN updates THEN updates[f] ELSE posSystems[id][f]]]

\* {...transaction, id, createdAt}: the parsed body as it came; rate and req are history
createTransaction(data, r) ==
  [id |-> <<"trans", Len(transactions) + 1>>, posId |-> data.posId,
   receiptNumber |-> data.receiptNumber, items |-> data.items,
   subtotal |-> data.subtotal, tax |-> data.tax, total |-> data.total,
   rate |-> IF data.posId \in DOMAIN posSystems THEN posSystems[data.posId].taxRate ELSE 0,
   req |-> r]

\* {posId, ...req.body}: a posId in the body wins
withPosIdBodyFirst(body, posId) ==
  [f \in DOMAIN body \cup {"posId"} |-> IF f \in DOMAIN body THEN body[f] ELSE posId]

\* {...req.body, posId}: the principal's id replaces any posId of the body
withPosId(body, posId) ==
  [f \in DOMAIN body \cup {"posId"} |-> IF f = "posId" THEN posId ELSE body[f]]

\* the posId a request body carries, if any
BodyPosId(body) == IF "posId" \in DOMAIN body THEN body.posId ELSE NoId

(***************************************************************************)
(* The cart a client submits (pos-interface.tsx).                          *)
(***************************************************************************)
\* Date.now() at the moments the till completes an order
Clock == {1000001, 1000002, 2000001}

FirstSale == CHOOSE t \in Clock : \A u \in Clock : t <= u

\* completeOrder: `R${Date.now().toString().slice(-6)}`, the last six digits
receiptNumber(now) == <<"R", now % 1000000>>

Items == [productId : ProductIds, price : Prices, quantity : 1..MaxQty]

Carts == UNION {[1..n -> Items] : n \in CartSizes}

RECURSIVE SumItems(_)
SumItems(items) ==
  IF items = <<>> THEN 0
  ELSE items[1].price * items[1].quantity + SumItems(Tail(items))

\* x.toFixed(2): cents times tenths of a percent are thousandths of a cent, rounded
\* to the nearest cent
toFixed2(milli) == (milli + 500) \div 1000

\* subtotal, tax = subtotal * taxRate, total = subtotal + tax, each through toFixed(2)
ClientTotals(items, rate) ==
  [subtotal |-> SumItems(items),
   tax |-> toFixed2(SumItems(items) * rate),
   total |-> toFixed2(SumItems(items) * 1000 + SumItems(items) * rate)]

\* the totals the page sends: the business's own rate, 8.5% when it has none
PageTotals(s, items) ==
  ClientTotals(items, IF s.id \in DOMAIN posSystems THEN posSystems[s.id].taxRate ELSE 85)

\* a body whose totals are not the client page's
Tampered == [subtotal |-> 100, tax |-> 0, total |-> 1]

(***************************************************************************)
(* Catalog routes.  The guard, the ownership read and the write are taken   *)
(* as one step.                                                            *)
(***************************************************************************)
\* POST /api/pos/products with any body: productData = {...req.body, posId}
CreateProductFrom(s, body) ==
  /\ ProductId(productCount + 1) \in ProductIds
  /\ IF ~requirePOS(s)
       THEN /\ resp' = Reply("create-product", 401, NoId, s)
            /\ UNCHANGED <<products, productCount>>
       ELSE /\ products' = createProduct(ProductId(productCount + 1), withPosId(body, s.id))
            /\ productCount' = productCount + 1
            /\ resp' = ReplyWith("create-product", 201, ProductId(productCount + 1), s,
                                  <<BodyPosId(body)>>)
  /\ sessions' = SessionsAfter(s)
  /\ revoked' = RevokedAfter(s)
  /\ UNCHANGED <<observe, edit, stats, posSystems, posCount, reg, cur, transactions, checkout>>

\* the same request with the body the product form sends
CreateProduct(s, price, stock) == CreateProductFrom(s, [price |-> price, stock |-> stock])

UpdateProduct(s, productId, updates) ==
  /\ IF ~requirePOS(s)
       THEN /\ resp' = Reply("update-product", 401, productId, s)
            /\ UNCHANGED products
     ELSE IF productId \notin DOMAIN products \/ products[productId].posId # s.id
       THEN /\ resp' = Reply("update-product", 404, productId, s)
            /\ UNCHANGED products
     ELSE /\ products' = updateProduct(productId, updates)
          /\ resp' = Reply("update-product", 200, productId, s)
  /\ sessions' = SessionsAfter(s)
  /\ revoked' = RevokedAfter(s)
  /\ UNCHANGED <<observe, edit, stats, posSystems, posCount, reg, cur, productCount, transactions, checkout>>

DeleteProduct(s, productId) ==
  /\ IF ~requirePOS(s)
       THEN /\ resp' = Reply("delete-product", 401, productId, s)
            /\ UNCHANGED products
     ELSE IF productId \notin DOMAIN products \/ products[productId].posId # s.id
       THEN /\ resp' = Reply("delete-product", 404, productId, s)
            /\ UNCHANGED products
     ELSE /\ products' = deleteProduct(productId)
          /\ resp' = Reply("delete-product", 204, productId, s)
  /\ sessions' = SessionsAfter(s)
  /\ revoked' = RevokedAfter(s)
  /\ UNCHANGED <<observe, edit, stats, posSystems, posCount, reg, cur, productCount, transactions, checkout>>

\* PUT /api/pos/products/:id/stock: updateProductStock(productId, parseInt(stock))
UpdateStock(s, productId, stock) ==
  /\ IF ~requirePOS(s)
       THEN /\ resp' = Reply("stock", 401, productId, s)
            /\ UNCHANGED products
     ELSE IF productId \notin DOMAIN products \/ products[productId].posId # s.id
       THEN /\ resp' = Reply("stock", 404, productId, s)
            /\ UNCHANGED products
     ELSE /\ products' = updateProductStock(productId, stock)
          /\ resp' = Reply("stock", 200, productId, s)
  /\ sessions' = SessionsAfter(s)
  /\ revoked' = RevokedAfter(s)
  /\ UNCHANGED <<observe, edit, stats, posSystems, posCount, reg, cur, productCount, transactions, checkout>>

\* PUT /api/pos/business-info with a tax rate only
UpdateBusinessInfo(s, taxRate) ==
  /\ IF ~requirePOS(s)
       THEN /\ resp' = Reply("business-info", 401, s.id, s)
            /\ UNCHANGED posSystems
       ELSE /\ posSystems' = updatePOSSystem(s.id, [taxRate |-> taxRate])
            /\ resp' = Reply("business-info", 200, s.id, s)
  /\ sessions' = SessionsAfter(s)
  /\ revoked' = RevokedAfter(s)
  /\ UNCHANGED <<observe, edit, stats, posCount, reg, cur, storeVars>>

(***************************************************************************)
(* The same three routes with their two store calls apart: getProduct and  *)
(* the ownership test, then the write, with other requests in between.     *)
(***************************************************************************)
\* the guard, getProduct and the ownership test of an update, delete or stock request
VerifyOwner(s, route, productId, body) ==
  /\ edit.pc = "idle"
  /\ IF ~requirePOS(s)
       THEN /\ resp' = Reply(route, 401, productId, s)
            /\ UNCHANGED edit
     ELSE IF productId \notin DOMAIN products \/ products[productId].posId # s.id
       THEN /\ resp' = Reply(route, 404, productId, s)
            /\ UNCHANGED edit
     ELSE /\ edit' = [pc |-> "write", route |-> route, id |-> productId, by |-> s,
                      body |-> body]
          /\ resp' = NoResp
  /\ sessions' = SessionsAfter(s)
  /\ revoked' = RevokedAfter(s)
  /\ UNCHANGED <<observe, stats, posSystems, posCount, reg, cur, storeVars>>

\* the write of the request in flight: updateProduct, deleteProduct or updateProductStock
WriteProduct ==
  /\ edit.pc = "write"
  /\ products' = CASE edit.route = "update-product" -> updateProduct(edit.id, edit.body)
                  [] edit.route = "delete-product" -> deleteProduct(edit.id)
                  [] edit.route = "stock" -> updateProductStock(edit.id, edit.body.stock)
  /\ resp' = Reply(edit.route, IF edit.route = "delete-product" THEN 204 ELSE 200,
                   edit.id, edit.by)
  /\ edit' = IdleEdit
  /\ UNCHANGED <<observe, stats, posSystems, posCount, sessions, reg, cur, productCount,
                 transactions, checkout, revoked>>

(***************************************************************************)
(* Checkout: POST /api/pos/transactions.  The guard and the parse, then    *)
(* one reduceProductStock per line item in cart order, then                *)
(* createTransaction; each store call is a step of its own.                *)
(***************************************************************************)
NoneTaken == [p \in ProductIds |-> 0]

\* the r-th checkout request the server receives
\* with any body: data = insertTransactionSchema.parse({...req.body, posId: req.user.id});
\* `by` and `sent` are history: the principal, and the posId the body carried
CheckoutBeginFrom(r, s, body) ==
  /\ r = Len(checkout) + 1
  /\ IF ~requirePOS(s)
       THEN /\ resp' = Reply("checkout", 401, NoId, s)
            /\ UNCHANGED checkout
       ELSE /\ checkout' = Append(checkout,
                    [pc |-> "reduce", i |-> 1, taken |-> NoneTaken,
                     data |-> withPosId(body, s.id), by |-> s, sent |-> BodyPosId(body)])
            /\ resp' = NoResp
  /\ sessions' = SessionsAfter(s)
  /\ revoked' = RevokedAfter(s)
  /\ UNCHANGED <<observe, edit, stats, posSystems, posCount, reg, cur, products, productCount, transactions>>

\* the same request with the body the till sends
CheckoutBegin(r, s, items, totals, receipt) ==
  CheckoutBeginFrom(r, s, [receiptNumber |-> receipt, items |-> items,
                           subtotal |-> totals.subtotal, tax |-> totals.tax,
                           total |-> totals.total])

\* one pass of the loop: `taken` is the history of what this request has removed
CheckoutReduce(r) ==
  /\ r \in DOMAIN checkout
  /\ checkout[r].pc = "reduce"
  /\ checkout[r].i <= Len(checkout[r].data.items)
  /\ LET item == checkout[r].data.items[checkout[r].i]
         res == reduceProductStock(item.productId, item.quantity)
     IN IF res.modified
          THEN /\ products' = res.products
               /\ checkout' = [checkout EXCEPT ![r].i = @ + 1,
                                 ![r].taken[item.productId] = @ + item.quantity]
               /\ resp' = NoResp
          ELSE /\ products' = res.products
               /\ checkout' = [checkout EXCEPT ![r].pc = "400"]
               /\ resp' = Reply("checkout", 400, item.productId,
                                serializeUser(checkout[r].data.posId, "pos"))
  /\ UNCHANGED <<observe, edit, stats, posSystems, posCount, sessions, reg, cur, productCount,
                 transactions, revoked>>

\* a persist that inserts the transaction twice
CheckoutPersistTwice(r) ==
  /\ r \in DOMAIN checkout
  /\ checkout[r].pc = "reduce"
  /\ checkout[r].i > Len(checkout[r].data.items)
  /\ transactions' = Append(Append(transactions, createTransaction(checkout[r].data, r)),
                            createTransaction(checkout[r].data, r))
  /\ checkout' = [checkout EXCEPT ![r].pc = "201"]
  /\ resp' = Reply("checkout", 201, NoId, serializeUser(checkout[r].data.posId, "pos"))
  /\ UNCHANGED <<observe, edit, stats, posSystems, posCount, sessions, reg, cur, products,
                 productCount, revoked>>

CheckoutPersist(r) ==
  /\ r \in DOMAIN checkout
  /\ checkout[r].pc = "reduce"
  /\ checkout[r].i > Len(checkout[r].data.items)
  /\ transactions' = Append(transactions, createTransaction(checkout[r].data, r))
  /\ checkout' = [checkout EXCEPT ![r].pc = "201"]
  /\ resp' = Reply("checkout", 201, NoId, serializeUser(checkout[r].data.posId, "pos"))
  /\ UNCHANGED <<observe, edit, stats, posSystems, posCount, sessions, reg, cur, products, productCount,
                 revoked>>

\* createTransaction rejects (insertOne fails on a store error): the catch block
\* answers 400 with the error's message, after the decrements
CheckoutPersistFails(r) ==
  /\ r \in DOMAIN checkout
  /\ checkout[r].pc = "reduce"
  /\ checkout[r].i > Len(checkout[r].data.items)
  /\ checkout' = [checkout EXCEPT ![r].pc = "400"]
  /\ resp' = Reply("checkout", 400, NoId, serializeUser(checkout[r].data.posId, "pos"))
  /\ UNCHANGED <<observe, edit, stats, posSystems, posCount, sessions, reg, cur, products, productCount,
                 transactions, revoked>>

(***************************************************************************)
(* The server after construction: the seeded admin and an empty store.     *)
(***************************************************************************)
Start(routes) ==
  /\ posSystems = <<>>
  /\ posCount = 0
  /\ sessions = {}
  /\ reg = [b \in InFlight |-> 0]
  /\ cur = IdleCur
  /\ products = <<>>
  /\ productCount = 0
  /\ transactions = <<>>
  /\ checkout = <<>>
  /\ revoked = {}
  /\ resp = NoResp
  /\ observe = routes
  /\ edit = IdleEdit
  /\ stats = IdleStats

\* requests of the registration, login, approval and settings routes
Next ==
  \/ \E u \in Usernames, pw \in RegPasswords, c \in Passwords : RegisterCheck(u, pw, c)
  \/ \E u \in Usernames, pw \in RegPasswords : RegisterCreate(u, pw)
  \/ \E n \in {1, 2}, pw \in Passwords : AdminLogin(n, pw)
  \/ \E u \in Usernames, pw \in Passwords : POSLogin(u, pw)
  \/ \E s \in sessions : Logout(s)
  \/ \E s \in Carried, i \in PosIds : Approve(s, i)
  \/ \E s \in Carried, i \in PosIds : Reject(s, i)
  \/ \E s \in Carried, i \in PosIds : DeletePOS(s, i)
  \/ \E s \in Carried : GetProducts(s)
  \/ \E s \in Carried, c \in {"", "$"} : CurrencyBegin(s, c)
  \/ CurrencyRead
  \/ CurrencyWrite

\* the approval workflow, observed at the approve and reject routes
Init == Start({<<"approve", 200>>, <<"reject", 200>>})

Spec == Init /\ [][Next]_vars

\* the same server, observed at the login routes
InitLogin == Start({<<"pos-login", 200>>, <<"pos-login", 401>>, <<"approve", 200>>})

SpecLogin == InitLogin /\ [][Next]_vars

\* the same server, observed at the registration route
InitRegister == Start({<<"create", 201>>})

SpecRegister == InitRegister /\ [][Next]_vars

\* the same server, observed at a POS-only route
InitGuard == Start({<<"products", 200>>, <<"products", 401>>})

SpecGuard == InitGuard /\ [][Next]_vars

(***************************************************************************)
(* A shop in business: "u1" has registered, the admin has approved it, and *)
(* both are logged in.                                                     *)
(***************************************************************************)
OpenShop ==
  [username |-> "u1", password |-> hashPassword("pw1", "s1"), status |-> "approved",
   currencySymbol |-> "P", approvedAt |-> "date", approvedBy |-> <<"admin", 1>>,
   taxRate |-> 0]

Owner == serializeUser(PosId(1), "pos")

\* the catalog a shop has built with create-product requests
Shelf(stock) ==
  [p \in ProductIds |->
     [posId |-> PosId(1), price |-> 400, stock |-> stock[p], isActive |-> "true"]]

StockInputs == -1 .. MaxStock

InitShop ==
  /\ posSystems = (PosId(1) :> OpenShop)
  /\ posCount = 1
  /\ sessions = {Owner, serializeUser(<<"admin", 1>>, "admin")}
  /\ reg = [b \in InFlight |-> 0]
  /\ cur = IdleCur
  /\ products = <<>>
  /\ productCount = 0
  /\ transactions = <<>>
  /\ checkout = <<>>
  /\ revoked = {}
  /\ resp = NoResp
  /\ observe = {<<"delete", 200>>}
  /\ edit = IdleEdit
  /\ stats = IdleStats

\* catalog edits, settings, one checkout, and the admin's delete
NextShop ==
  \/ \E s \in Carried, price \in Prices, stock \in StockInputs : CreateProduct(s, price, stock)
  \/ \E s \in Carried, p \in ProductIds, stock \in StockInputs :
        UpdateProduct(s, p, [stock |-> stock])
  \/ \E s \in Carried, p \in ProductIds : DeleteProduct(s, p)
  \/ \E s \in Carried, p \in ProductIds, stock \in StockInputs : UpdateStock(s, p, stock)
  \/ \E s \in Carried, t \in TaxRates : UpdateBusinessInfo(s, t)
  \/ \E s \in Carried, items \in Carts :
        \E totals \in {PageTotals(s, items), Tampered} : CheckoutBegin(1, s, items, totals, receiptNumber(FirstSale))
  \/ CheckoutReduce(1)
  \/ CheckoutPersist(1)
  \/ \E s \in Carried, i \in PosIds : DeletePOS(s, i)

SpecShop == InitShop /\ [][NextShop]_vars

\* the shop at the till: a stocked shelf and checkout requests side by side
InitCheckout ==
  /\ posSystems = (PosId(1) :> OpenShop)
  /\ posCount = 1
  /\ sessions = {Owner}
  /\ reg = [b \in InFlight |-> 0]
  /\ cur = IdleCur
  /\ \E stock \in [ProductIds -> 0 .. MaxStock] : products = Shelf(stock)
  /\ productCount = 2
  /\ transactions = <<>>
  /\ checkout = <<>>
  /\ revoked = {}
  /\ resp = NoResp
  /\ observe = {}
  /\ edit = IdleEdit
  /\ stats = IdleStats

NextCheckout ==
  \/ \E r \in Requests, s \in Carried, items \in Carts :
        CheckoutBegin(r, s, items, PageTotals(s, items), receiptNumber(FirstSale))
  \/ \E r \in Requests : CheckoutReduce(r)
  \/ \E r \in Requests : CheckoutPersist(r)

SpecCheckout == InitCheckout /\ [][NextCheckout]_vars

\* the till with the back office at work: checkouts side by side with the owner's
\* product deletions and the admin's delete of the business
InitLedger ==
  /\ posSystems = (PosId(1) :> OpenShop)
  /\ posCount = 1
  /\ sessions = {Owner, serializeUser(<<"admin", 1>>, "admin")}
  /\ reg = [b \in InFlight |-> 0]
  /\ cur = IdleCur
  /\ products = Shelf([p \in ProductIds |-> 1])
  /\ productCount = 2
  /\ transactions = <<>>
  /\ checkout = <<>>
  /\ revoked = {}
  /\ resp = NoResp
  /\ observe = {}
  /\ edit = IdleEdit
  /\ stats = IdleStats

NextLedger ==
  \/ \E r \in Requests, s \in Carried, items \in Carts :
        CheckoutBegin(r, s, items, PageTotals(s, items), receiptNumber(FirstSale))
  \/ \E r \in Requests : CheckoutReduce(r)
  \/ \E r \in Requests : CheckoutPersist(r)
  \/ \E s \in Carried, p \in ProductIds : DeleteProduct(s, p)
  \/ \E s \in Carried, i \in PosIds : DeletePOS(s, i)

SpecLedger == InitLedger /\ [][NextLedger]_vars

\* every guarded route, called with every kind of session
AdminRoutes == {"approve", "reject", "delete", "stats"}

POSRoutes == {"products", "create-product", "update-product", "delete-product", "stock",
              "business-info", "currency", "checkout"}

InitAccess ==
  /\ posSystems = (PosId(1) :> OpenShop)
  /\ posCount = 1
  /\ sessions = {Owner, serializeUser(<<"admin", 1>>, "admin")}
  /\ reg = [b \in InFlight |-> 0]
  /\ cur = IdleCur
  /\ products = <<>>
  /\ productCount = 0
  /\ transactions = <<>>
  /\ checkout = <<>>
  /\ revoked = {}
  /\ resp = NoResp
  /\ observe = (AdminRoutes \cup POSRoutes) \X {200, 201, 204, 400, 401, 404}
  /\ edit = IdleEdit
  /\ stats = IdleStats

NextAccess ==
  \/ \E s \in Carried : Approve(s, PosId(1))
  \/ \E s \in Carried : Reject(s, PosId(1))
  \/ \E s \in Carried : DeletePOS(s, PosId(1))
  \/ \E s \in Carried : GetAdminStats(s)
  \/ \E s \in Carried : GetProducts(s)
  \/ \E s \in Carried, price \in Prices : CreateProduct(s, price, 1)
  \/ \E s \in Carried : UpdateProduct(s, ProductId(1), [stock |-> 1])
  \/ \E s \in Carried : DeleteProduct(s, ProductId(1))
  \/ \E s \in Carried : UpdateStock(s, ProductId(1), 0)
  \/ \E s \in Carried : UpdateBusinessInfo(s, 85)
  \/ \E s \in Carried : CurrencyBegin(s, "$")
  \/ CurrencyRead
  \/ CurrencyWrite
  \/ \E s \in Carried, items \in {c \in Carts : Len(c) = 1 /\ c[1].quantity = 1} :
        CheckoutBegin(1, s, items, PageTotals(s, items), receiptNumber(FirstSale))
  \/ CheckoutReduce(1)
  \/ CheckoutPersist(1)

SpecAccess == InitAccess /\ [][NextAccess]_vars

OtherShop == [OpenShop EXCEPT !.username = "u2"]

Owner2 == serializeUser(PosId(2), "pos")

(***************************************************************************)
(* Two shops building their catalogs, hiding and showing products and     *)
(* listing them.                                                           *)
(***************************************************************************)
InitListing ==
  /\ posSystems = (PosId(1) :> OpenShop) @@ (PosId(2) :> OtherShop)
  /\ posCount = 2
  /\ sessions = {Owner, Owner2}
  /\ reg = [b \in InFlight |-> 0]
  /\ cur = IdleCur
  /\ products = <<>>
  /\ productCount = 0
  /\ transactions = <<>>
  /\ checkout = <<>>
  /\ revoked = {}
  /\ resp = NoResp
  /\ observe = {<<"products", 200>>, <<"update-product", 200>>}
  /\ edit = IdleEdit
  /\ stats = IdleStats

NextListing ==
  \/ \E s \in Carried, price \in Prices : CreateProduct(s, price, MaxStock)
  \/ \E s \in Carried, p \in ProductIds, active \in {"false", "true"} :
        UpdateProduct(s, p, [isActive |-> active])
  \/ \E s \in Carried, p \in ProductIds : DeleteProduct(s, p)
  \/ \E s \in Carried : GetProducts(s)

SpecListing == InitListing /\ [][NextListing]_vars

(***************************************************************************)
(* The till with a cart that names a product the store does not hold:      *)
(* only product-1 is on the shelf.                                         *)
(***************************************************************************)
InitMissing ==
  /\ posSystems = (PosId(1) :> OpenShop)
  /\ posCount = 1
  /\ sessions = {Owner}
  /\ reg = [b \in InFlight |-> 0]
  /\ cur = IdleCur
  /\ \E stock \in [ProductIds -> 0 .. MaxStock] :
       products = [p \in {ProductId(1)} |-> Shelf(stock)[p]]
  /\ productCount = 1
  /\ transactions = <<>>
  /\ checkout = <<>>
  /\ revoked = {}
  /\ resp = NoResp
  /\ observe = {<<"checkout", 400>>}
  /\ edit = IdleEdit
  /\ stats = IdleStats

NextMissing ==
  \/ \E r \in Requests, s \in Carried, items \in Carts :
        CheckoutBegin(r, s, items, PageTotals(s, items), receiptNumber(FirstSale))
  \/ \E r \in Requests : CheckoutReduce(r)
  \/ \E r \in Requests : CheckoutPersist(r)

SpecMissing == InitMissing /\ [][NextMissing]_vars

(***************************************************************************)
(* Two shops at their tills: product-1 is on the shelf of pos-1, product-2 *)
(* on the shelf of pos-2, and a cart may name either.                      *)
(***************************************************************************)
TwoShelves ==
  [p \in ProductIds |->
     [posId |-> PosId(p[2]), price |-> 400, stock |-> MaxStock, isActive |-> "true"]]

InitCross ==
  /\ posSystems = (PosId(1) :> OpenShop) @@ (PosId(2) :> OtherShop)
  /\ posCount = 2
  /\ sessions = {Owner, Owner2}
  /\ reg = [b \in InFlight |-> 0]
  /\ cur = IdleCur
  /\ products = TwoShelves
  /\ productCount = 2
  /\ transactions = <<>>
  /\ checkout = <<>>
  /\ revoked = {}
  /\ resp = NoResp
  /\ observe = {}
  /\ edit = IdleEdit
  /\ stats = IdleStats

NextCross ==
  \/ \E r \in Requests, s \in Carried :
        \E items \in {c \in Carts : Len(c) = 1} :
          CheckoutBegin(r, s, items, PageTotals(s, items), receiptNumber(FirstSale))
  \/ \E r \in Requests : CheckoutReduce(r)
  \/ \E r \in Requests : CheckoutPersist(r)

SpecCross == InitCross /\ [][NextCross]_vars

(***************************************************************************)
(* The till with carts whose quantities are any integers the JSON body can *)
(* carry: negative, zero or positive.                                      *)
(***************************************************************************)
AnyItems == [productId : ProductIds, price : Prices, quantity : -1 .. 1]

AnyCarts == UNION {[1..n -> AnyItems] : n \in CartSizes \ {0}}

InitAnyCart ==
  /\ posSystems = (PosId(1) :> OpenShop)
  /\ posCount = 1
  /\ sessions = {Owner}
  /\ reg = [b \in InFlight |-> 0]
  /\ cur = IdleCur
  /\ products = Shelf([p \in ProductIds |-> 1])
  /\ productCount = 2
  /\ transactions = <<>>
  /\ checkout = <<>>
  /\ revoked = {}
  /\ resp = NoResp
  /\ observe = {}
  /\ edit = IdleEdit
  /\ stats = IdleStats

NextAnyCart ==
  \/ \E s \in Carried, items \in AnyCarts :
        CheckoutBegin(1, s, items, PageTotals(s, items), receiptNumber(FirstSale))
  \/ CheckoutReduce(1)
  \/ CheckoutPersist(1)

SpecAnyCart == InitAnyCart /\ [][NextAnyCart]_vars

(***************************************************************************)
(* The till with a store that may fail at the insert of the transaction.   *)
(***************************************************************************)
NextConserve ==
  \/ \E r \in Requests, s \in Carried, items \in Carts :
        CheckoutBegin(r, s, items, PageTotals(s, items), receiptNumber(FirstSale))
  \/ \E r \in Requests : CheckoutReduce(r)
  \/ \E r \in Requests : CheckoutPersist(r)
  \/ \E r \in Requests : CheckoutPersistFails(r)

SpecConserve == InitCheckout /\ [][NextConserve]_vars

(***************************************************************************)
(* The admin at the dashboard while businesses register and are approved,  *)
(* rejected and deleted.                                                   *)
(***************************************************************************)
InitStats ==
  /\ posSystems = <<>>
  /\ posCount = 0
  /\ sessions = {serializeUser(<<"admin", 1>>, "admin")}
  /\ reg = [b \in InFlight |-> 0]
  /\ cur = IdleCur
  /\ products = <<>>
  /\ productCount = 0
  /\ transactions = <<>>
  /\ checkout = <<>>
  /\ revoked = {}
  /\ resp = NoResp
  /\ observe = {<<"stats", 200>>}
  /\ edit = IdleEdit
  /\ stats = IdleStats

NextStats ==
  \/ \E u \in Usernames, pw \in RegPasswords, c \in Passwords : RegisterCheck(u, pw, c)
  \/ \E u \in Usernames, pw \in RegPasswords : RegisterCreate(u, pw)
  \/ \E s \in Carried, i \in PosIds : Approve(s, i)
  \/ \E s \in Carried, i \in PosIds : Reject(s, i)
  \/ \E s \in Carried, i \in PosIds : DeletePOS(s, i)
  \/ \E s \in Carried : StatsBegin(s)
  \/ StatsCount

SpecStats == InitStats /\ [][NextStats]_vars

(***************************************************************************)
(* Two shops whose requests may carry a posId of their own choosing in the *)
(* body.                                                                   *)
(***************************************************************************)
ProductBodies ==
  {[price |-> 400, stock |-> MaxStock]}
    \cup {[price |-> 400, stock |-> MaxStock, posId |-> i] : i \in PosIds}

\* the body the till sends, as it is or with a posId added
OrderBodies(s, items) ==
  LET body == [receiptNumber |-> receiptNumber(FirstSale), items |-> items,
               subtotal |-> PageTotals(s, items).subtotal,
               tax |-> PageTotals(s, items).tax,
               total |-> PageTotals(s, items).total]
  IN {body} \cup {withPosId(body, i) : i \in PosIds}

InitForged ==
  /\ posSystems = (PosId(1) :> OpenShop) @@ (PosId(2) :> OtherShop)
  /\ posCount = 2
  /\ sessions = {Owner, Owner2}
  /\ reg = [b \in InFlight |-> 0]
  /\ cur = IdleCur
  /\ products = <<>>
  /\ productCount = 0
  /\ transactions = <<>>
  /\ checkout = <<>>
  /\ revoked = {}
  /\ resp = NoResp
  /\ observe = {<<"create-product", 201>>}
  /\ edit = IdleEdit
  /\ stats = IdleStats

NextForged ==
  \/ \E s \in Carried, body \in ProductBodies : CreateProductFrom(s, body)
  \/ \E s \in Carried :
        \E items \in {c \in Carts : Len(c) = 1 /\ c[1].quantity = 1} :
          \E body \in OrderBodies(s, items) : CheckoutBeginFrom(1, s, body)
  \/ CheckoutReduce(1)
  \/ CheckoutPersist(1)

SpecForged == InitForged /\ [][NextForged]_vars

(***************************************************************************)
(* The owner at the settings page, the admin at the approval page.         *)
(***************************************************************************)
InitSettings ==
  /\ posSystems = (PosId(1) :> OpenShop)
  /\ posCount = 1
  /\ sessions = {Owner, serializeUser(<<"admin", 1>>, "admin")}
  /\ reg = [b \in InFlight |-> 0]
  /\ cur = IdleCur
  /\ products = <<>>
  /\ productCount = 0
  /\ transactions = <<>>
  /\ checkout = <<>>
  /\ revoked = {}
  /\ resp = NoResp
  /\ observe = {"currency", "business-info"} \X {200, 400}
  /\ edit = IdleEdit
  /\ stats = IdleStats

NextSettings ==
  \/ \E s \in Carried, c \in Symbols : CurrencyBegin(s, c)
  \/ CurrencyRead
  \/ CurrencyWrite
  \/ \E s \in Carried, t \in TaxRates : UpdateBusinessInfo(s, t)
  \/ \E s \in Carried : Approve(s, PosId(1))
  \/ \E s \in Carried : Reject(s, PosId(1))
  \/ \E s \in Carried : DeletePOS(s, PosId(1))

SpecSettings == InitSettings /\ [][NextSettings]_vars

(***************************************************************************)
(* The till ringing up sales at different moments.                         *)
(***************************************************************************)
InitReceipt ==
  /\ posSystems = (PosId(1) :> OpenShop)
  /\ posCount = 1
  /\ sessions = {Owner}
  /\ reg = [b \in InFlight |-> 0]
  /\ cur = IdleCur
  /\ \E stock \in [ProductIds -> 1 .. MaxStock] : products = Shelf(stock)
  /\ productCount = 2
  /\ transactions = <<>>
  /\ checkout = <<>>
  /\ revoked = {}
  /\ resp = NoResp
  /\ observe = {}
  /\ edit = IdleEdit
  /\ stats = IdleStats

NextReceipt ==
  \/ \E r \in Requests, s \in Carried, now \in Clock :
        \E items \in {c \in Carts : Len(c) = 1 /\ c[1].quantity = 1} :
          CheckoutBegin(r, s, items, PageTotals(s, items), receiptNumber(now))
  \/ \E r \in Requests : CheckoutReduce(r)
  \/ \E r \in Requests : CheckoutPersist(r)

SpecReceipt == InitReceipt /\ [][NextReceipt]_vars

(***************************************************************************)
(* Logins against a document whose password field holds any string: a      *)
(* derived credential, or one written to the collection by other means.    *)
(***************************************************************************)
StoredCredentials ==
  { hashPassword("pw1", "s1"),                          \* `${hash}.${salt}`
    [hashed |-> hex("64"), salt |-> "s1"],              \* 64 bytes of some other hash
    [hashed |-> hex("32"), salt |-> "s1"],              \* a shorter hash part
    [hashed |-> hex("0"), salt |-> "s1"],               \* no hex digits before the "."
    [hashed |-> hex("64"), salt |-> Undefined],         \* no "." at all
    [hashed |-> hex("0"), salt |-> Undefined] }         \* plain text, no "."

Malformed(stored) == stored.salt = Undefined \/ ByteLength(stored.hashed) # KeyLen

InitVerify ==
  /\ \E c \in StoredCredentials :
       posSystems = (PosId(1) :> [OpenShop EXCEPT !.password = c])
  /\ posCount = 1
  /\ sessions = {}
  /\ reg = [b \in InFlight |-> 0]
  /\ cur = IdleCur
  /\ products = <<>>
  /\ productCount = 0
  /\ transactions = <<>>
  /\ checkout = <<>>
  /\ revoked = {}
  /\ resp = NoResp
  /\ observe = {"pos-login"} \X {200, 401, 500}
  /\ edit = IdleEdit
  /\ stats = IdleStats

NextVerify ==
  \/ \E n \in {1, 2}, p \in Passwords : AdminLogin(n, p)
  \/ \E u \in Usernames, p \in Passwords : POSLogin(u, p)
  \/ \E s \in sessions : Logout(s)
  \/ \E s \in Carried : Approve(s, PosId(1))
  \/ \E s \in Carried : Reject(s, PosId(1))

SpecVerify == InitVerify /\ [][NextVerify]_vars

(***************************************************************************)
(* Two shops side by side, each editing its catalog.                       *)
(***************************************************************************)
\* the bodies of a product update: a stock, or another owner
Updates == {[stock |-> 1], [posId |-> PosId(1)], [posId |-> PosId(2)]}

InitCatalog ==
  /\ posSystems = (PosId(1) :> OpenShop) @@ (PosId(2) :> OtherShop)
  /\ posCount = 2
  /\ sessions = {Owner, Owner2}
  /\ reg = [b \in InFlight |-> 0]
  /\ cur = IdleCur
  /\ products = <<>>
  /\ productCount = 0
  /\ transactions = <<>>
  /\ checkout = <<>>
  /\ revoked = {}
  /\ resp = NoResp
  /\ observe = {<<"update-product", 200>>, <<"delete-product", 204>>, <<"stock", 200>>}
  /\ edit = IdleEdit
  /\ stats = IdleStats

NextCatalog ==
  \/ \E s \in Carried, price \in Prices, stock \in {0, MaxStock} : CreateProduct(s, price, stock)
  \/ \E s \in Carried, p \in ProductIds, u \in Updates : UpdateProduct(s, p, u)
  \/ \E s \in Carried, p \in ProductIds, u \in Updates : VerifyOwner(s, "update-product", p, u)
  \/ \E s \in Carried, p \in ProductIds : VerifyOwner(s, "delete-product", p, [none |-> 0])
  \/ \E s \in Carried, p \in ProductIds, stock \in {0, MaxStock} :
        VerifyOwner(s, "stock", p, [stock |-> stock])
  \/ WriteProduct

SpecCatalog == InitCatalog /\ [][NextCatalog]_vars

(***************************************************************************)
(* The file-backed store (storage.ts: MemStorage), the other implementation *)
(* of IStorage, driven through the interface with the arguments the routes  *)
(* pass.  Each method loads, changes and saves the data file in one step.   *)
(***************************************************************************)
MemStorage_createPOSSystem(id, system) ==
  (id :> [username |-> system.username, password |-> system.password,
          status |-> "pending", currencySymbol |-> "$",
          approvedAt |-> Null, approvedBy |-> Null, taxRate |-> 85])
  @@ posSystems

\* approvedAt: status === "approved" ? new Date() : null; approvedBy: approvedBy || null
MemStorage_updatePOSSystemStatus(id, status, approvedBy) ==
  IF id \notin DOMAIN posSystems THEN posSystems
  ELSE [posSystems EXCEPT ![id].status = status,
                          ![id].approvedAt = IF status = "approved" THEN "date" ELSE Null,
                          ![id].approvedBy = approvedBy]

\* the business, and with it its products and its transactions
MemStorage_deletePOSSystem(id) ==
  [posSystems |-> [i \in DOMAIN posSystems \ {id} |-> posSystems[i]],
   products |-> [p \in {q \in DOMAIN products : products[q].posId # id} |-> products[p]],
   transactions |-> SelectSeq(transactions, LAMBDA t : t.posId # id)]

\* stock: insertProduct.stock ?? 0
MemStorage_createProduct(id, product) ==
  (id :> [posId |-> product.posId, price |-> product.price,
          stock |-> product.stock, isActive |-> "true"])
  @@ products

MemCreate(username, password) ==
  /\ PosId(posCount + 1) \in PosIds
  /\ getPOSSystemByUsername(username) = {}
  /\ \E salt \in Salts :
       posSystems' = MemStorage_createPOSSystem(PosId(posCount + 1),
                       [username |-> username,
                        password |-> hashPassword(password, salt)])
  /\ posCount' = posCount + 1
  /\ resp' = Reply("create", 201, PosId(posCount + 1), NoSession)
  /\ UNCHANGED <<observe, edit, stats, sessions, reg, cur, revoked, storeVars>>

\* approve(id, adminId)
MemApprove(id, adminId) ==
  /\ posSystems' = MemStorage_updatePOSSystemStatus(id, "approved", adminId)
  /\ resp' = Reply("approve", IF id \in DOMAIN posSystems THEN 200 ELSE 404, id,
                   serializeUser(adminId, "admin"))
  /\ UNCHANGED <<observe, edit, stats, posCount, sessions, reg, cur, revoked, storeVars>>

\* reject(id, adminId)
MemReject(id, adminId) ==
  /\ posSystems' = MemStorage_updatePOSSystemStatus(id, "rejected", adminId)
  /\ resp' = Reply("reject", IF id \in DOMAIN posSystems THEN 200 ELSE 404, id,
                   serializeUser(adminId, "admin"))
  /\ UNCHANGED <<observe, edit, stats, posCount, sessions, reg, cur, revoked, storeVars>>

MemDelete(id, adminId) ==
  /\ posSystems' = MemStorage_deletePOSSystem(id).posSystems
  /\ products' = MemStorage_deletePOSSystem(id).products
  /\ transactions' = MemStorage_deletePOSSystem(id).transactions
  /\ resp' = Reply("delete", IF id \in DOMAIN posSystems THEN 200 ELSE 404, id,
                   serializeUser(adminId, "admin"))
  /\ UNCHANGED <<observe, edit, stats, posCount, sessions, reg, cur, revoked, productCount, checkout>>

MemCreateProduct(posId, price, stock) ==
  /\ ProductId(productCount + 1) \in ProductIds
  /\ posId \in DOMAIN posSystems
  /\ products' = MemStorage_createProduct(ProductId(productCount + 1),
                    [posId |-> posId, price |-> price, stock |-> stock])
  /\ productCount' = productCount + 1
  /\ resp' = Reply("create-product", 201, ProductId(productCount + 1),
                   serializeUser(posId, "pos"))
  /\ UNCHANGED <<observe, edit, stats, posSystems, posCount, sessions, reg, cur, revoked, transactions,
                 checkout>>

InitMem == Start({<<"approve", 200>>, <<"reject", 200>>, <<"delete", 200>>})

NextMem ==
  \/ \E u \in Usernames, pw \in RegPasswords : MemCreate(u, pw)
  \/ \E i \in PosIds, a \in AdminIds : MemApprove(i, a)
  \/ \E i \in PosIds, a \in AdminIds : MemReject(i, a)
  \/ \E i \in PosIds, a \in AdminIds : MemDelete(i, a)
  \/ \E i \in PosIds, price \in Prices, stock \in 0 .. MaxStock : MemCreateProduct(i, price, stock)

SpecMem == InitMem /\ [][NextMem]_vars

(***************************************************************************)
(* Properties.                                                             *)
(***************************************************************************)
\* request r has been answered
Finished(r) == r \in DOMAIN checkout /\ checkout[r].pc \in {"201", "400"}

RECURSIVE QuantityOf(_, _)
QuantityOf(items, p) ==
  IF items = <<>> THEN 0
  ELSE (IF items[1].productId = p THEN items[1].quantity ELSE 0) + QuantityOf(Tail(items), p)

\* the quantity of p in the carts of the checkouts that succeeded
Sold(p) ==
  Sum([r \in DOMAIN checkout |->
         IF checkout[r].pc = "201" THEN QuantityOf(checkout[r].data.items, p) ELSE 0],
      DOMAIN checkout)

\* the stock of p before any checkout: the decrements are the only writes at the till
Available(p) ==
  products[p].stock + Sum([r \in DOMAIN checkout |-> checkout[r].taken[p]], DOMAIN checkout)

\* both requests are for one unit of p and nothing else
OneEach(p) ==
  /\ DOMAIN checkout = {1, 2}
  /\ \A r \in {1, 2} :
       /\ Len(checkout[r].data.items) = 1
       /\ checkout[r].data.items[1].productId = p
       /\ checkout[r].data.items[1].quantity = 1

\* C1: a checkout answered with the insufficient-stock error has, on balance, removed
\* nothing from any product, and no transaction was created for it.
C1_AllOrNothing ==
  \A r \in DOMAIN checkout :
    checkout[r].pc = "400"
      => /\ checkout[r].taken = NoneTaken
         /\ \A k \in DOMAIN transactions : transactions[k].req # r

\* C2: the successful checkouts never sell more of a product than was available, and of
\* two finished checkouts for one unit each of a product that had stock 1, exactly one
\* succeeded (one transaction), the other failed, and the stock is 0.
C2_NoOversell ==
  /\ \A p \in DOMAIN products : Sold(p) <= Available(p)
  /\ \A p \in DOMAIN products :
       (OneEach(p) /\ Available(p) = 1 /\ Finished(1) /\ Finished(2))
         => /\ {checkout[1].pc, checkout[2].pc} = {"201", "400"}
            /\ Len(transactions) = 1
            /\ products[p].stock = 0

\* C2 witness: the two one-unit checkouts of a product with stock 1 have both finished
C2_Witness ==
  \E p \in DOMAIN products :
    /\ OneEach(p) /\ Available(p) = 1 /\ Finished(1) /\ Finished(2)
    /\ Len(transactions) = 1

\* C3: every product's stock is at least 0.
C3_StockNeverNegative ==
  \A p \in DOMAIN products : products[p].stock >= 0

\* C4: every persisted transaction has total = subtotal + tax and subtotal = the sum of
\* unit price times quantity over its items.
C4_TotalsConsistent ==
  \A k \in DOMAIN transactions :
    /\ transactions[k].total = transactions[k].subtotal + transactions[k].tax
    /\ transactions[k].subtotal = SumItems(transactions[k].items)

\* C5: the tax of every persisted transaction is the subtotal of its items times the
\* rate the business had when it was persisted, rounded to the cent.
C5_ServerComputedTax ==
  \A k \in DOMAIN transactions :
    transactions[k].tax = toFixed2(SumItems(transactions[k].items) * transactions[k].rate)

\* C8: when the admin's delete of a business is answered with success, no product and
\* no transaction of that business is left in the store.
C8_DeleteLeavesNoOrphans ==
  resp.route = "delete" /\ resp.code = 200
    => /\ \A p \in DOMAIN products : products[p].posId # resp.id
       /\ \A k \in DOMAIN transactions : transactions[k].posId # resp.id

IsApproved(i) == i \in DOMAIN posSystems /\ posSystems[i].status = "approved"

\* the credentials <<username, password>> are those business i registered with
CorrectFor(i, arg) ==
  /\ i \in DOMAIN posSystems
  /\ posSystems[i].username = arg[1]
  /\ comparePasswords(arg[2], posSystems[i].password)

\* C6: a POS login establishes a session only for a business whose status is
\* approved at that login; a login that finds a pending or rejected business is
\* answered 401, whatever the password.
C6_LoginNeedsApproved ==
  /\ [][\A i \in PosIds :
          (serializeUser(i, "pos") \in sessions' /\ serializeUser(i, "pos") \notin sessions)
            => IsApproved(i)]_vars
  /\ [](resp.route = "pos-login" /\ resp.id \in DOMAIN posSystems /\ ~IsApproved(resp.id)
          => resp.code = 401 /\ resp.by = NoSession)

\* C6 witness: the correct username and password of a pending or rejected business, refused
C6_Witness ==
  /\ resp.route = "pos-login" /\ resp.code = 401
  /\ CorrectFor(resp.id, resp.arg)
  /\ posSystems[resp.id].status \in {"pending", "rejected"}

\* C7 as claimed: every request that carries a session which lived through a reject
\* (from approved) or a delete of its business is refused with 401.
C7_RevokedSessionRefusedForever ==
  resp.route = "products" /\ resp.rev => resp.code = 401

\* C7 amended: such a request is resolved to no principal and refused with 401 by the
\* guard as long as the business is deleted or has not been approved again.
C7_RevokedSessionRefusedUntilReapproved ==
  /\ resp.route = "products" /\ resp.rev /\ ~IsApproved(resp.id) => resp.code = 401
  /\ \A i \in revoked :
       ~IsApproved(i) => /\ deserializeUser(serializeUser(i, "pos")) = NoUser
                         /\ ~requirePOS(serializeUser(i, "pos"))

\* C7 witness: a request with a revoked session has been refused
C7_Witness ==
  /\ resp.route = "products" /\ resp.rev /\ resp.code = 401
  /\ resp.id \in DOMAIN posSystems

LegalTransitions ==
  {<<"pending", "approved">>, <<"pending", "rejected">>,
   <<"approved", "rejected">>, <<"rejected", "approved">>}

\* C9: a status changes only along a legal transition, and only in a step that
\* answers the admin's approve or reject of that business.
C9_StatusChangesOnlyByAdmin ==
  [][\A i \in PosIds :
       (i \in DOMAIN posSystems /\ i \in DOMAIN posSystems'
          /\ posSystems[i].status # posSystems'[i].status)
         => /\ <<posSystems[i].status, posSystems'[i].status>> \in LegalTransitions
            /\ resp'.route \in {"approve", "reject"}
            /\ resp'.id = i]_vars

\* C10: an answered approve leaves the business approved, with approvedAt set and
\* approvedBy the admin of the request, and a login with the username and password of
\* an approved business succeeds.
C10_ApproveThenLogin ==
  /\ resp.route = "approve" /\ resp.code = 200
       => /\ IsApproved(resp.id)
          /\ posSystems[resp.id].approvedAt # Null
          /\ posSystems[resp.id].approvedBy = resp.by.id
  /\ resp.route = "pos-login" /\ (\E i \in PosIds : IsApproved(i) /\ CorrectFor(i, resp.arg))
       => resp.code = 200

\* C11: an answered reject leaves the business rejected, with approvedAt and approvedBy
\* both null.
C11_RejectClears ==
  resp.route = "reject" /\ resp.code = 200
    => /\ posSystems[resp.id].status = "rejected"
       /\ posSystems[resp.id].approvedAt = Null
       /\ posSystems[resp.id].approvedBy = Null

\* C12: a business enters the store pending, with approvedAt and approvedBy null, and
\* so it is when its registration is answered, whatever status the request carried.
C12_RegistrationStartsPending ==
  /\ [][\A i \in PosIds :
          (i \in DOMAIN posSystems' /\ i \notin DOMAIN posSystems)
            => /\ posSystems'[i].status = "pending"
               /\ posSystems'[i].approvedAt = Null
               /\ posSystems'[i].approvedBy = Null]_vars
  /\ [](resp.route = "create" /\ resp.code = 201
          => /\ posSystems[resp.id].status = "pending"
             /\ posSystems[resp.id].approvedAt = Null
             /\ posSystems[resp.id].approvedBy = Null)

\* C12 witness: a registration whose body carried status approved has been answered
C12_Witness ==
  /\ resp.route = "create" /\ resp.code = 201
  /\ resp.arg = <<"approved">>
  /\ posSystems[resp.id].status = "pending"

\* C13: a checkout whose cart is empty is never answered 201 and no transaction is
\* created for it.
C13_EmptyCartRejected ==
  \A r \in DOMAIN checkout :
    checkout[r].data.items = <<>>
      => /\ checkout[r].pc # "201"
         /\ \A k \in DOMAIN transactions : transactions[k].req # r

\* C14: a product changes or disappears only in a step that answers an update, delete
\* or stock request of the business that owns it.
C14_OnlyOwnerMutates ==
  [][\A p \in DOMAIN products :
       (p \notin DOMAIN products' \/ products'[p] # products[p])
         => /\ resp'.route \in {"update-product", "delete-product", "stock"}
            /\ resp'.id = p
            /\ resp'.by.id = products[p].posId]_vars

\* C15: no two businesses in the store have the same username.
C15_UsernamesUnique ==
  \A i, j \in DOMAIN posSystems :
    posSystems[i].username = posSystems[j].username => i = j

\* C16: the posId of every product and of every transaction is the id of a business in
\* the store.
C16_OwnersExist ==
  /\ \A p \in DOMAIN products : products[p].posId \in DOMAIN posSystems
  /\ \A k \in DOMAIN transactions : transactions[k].posId \in DOMAIN posSystems

\* the transactions request r has in the ledger
LedgerOf(r) == {k \in DOMAIN transactions : transactions[k].req = r}

\* C17: every step leaves the transactions already in the ledger in place and unchanged
\* and adds at most one; it adds one exactly when it answers a checkout with 201; a
\* checkout answered 201 has exactly one transaction and one answered 400 has none.
C17_LedgerAppendOnly ==
  /\ [][/\ Len(transactions') \in {Len(transactions), Len(transactions) + 1}
         /\ SubSeq(transactions', 1, Len(transactions)) = transactions
         /\ Len(transactions') = Len(transactions) + 1
              <=> \E r \in DOMAIN checkout :
                    checkout[r].pc = "reduce" /\ checkout'[r].pc = "201"]_vars
  /\ [](\A r \in DOMAIN checkout :
          /\ checkout[r].pc = "201" => Cardinality(LedgerOf(r)) = 1
          /\ checkout[r].pc # "201" => LedgerOf(r) = {})

\* C17 witness: one checkout succeeded, one failed, and the business has been deleted
\* since; the ledger holds the one transaction
C17_Witness ==
  /\ DOMAIN checkout = {1, 2}
  /\ {checkout[1].pc, checkout[2].pc} = {"201", "400"}
  /\ PosId(1) \notin DOMAIN posSystems
  /\ Len(transactions) = 1

\* the session is live and its user is a seeded admin
IsAdminPrincipal(s) == s \in sessions /\ s.userType = "admin" /\ s.id \in DOMAIN adminUsers

\* the session is live and its user is a business that is approved now
IsApprovedPOS(s) == s \in sessions /\ s.userType = "pos" /\ IsApproved(s.id)

\* the step is the first of a request (its guard), not a later store call of one in flight
GuardStep ==
  /\ cur' = cur \/ cur.pc = "idle"
  /\ \A r \in DOMAIN checkout : checkout'[r] = checkout[r]

\* C18: the first step of a request to an admin-only route answers 401 exactly when the
\* session is not an admin's, to a POS-only route exactly when it is not an approved
\* business's; a step that answers 401 changes no collection and starts no handler; and
\* a handler that starts, or a collection that changes, does so for the right principal.
C18_GuardsBeforeHandlers ==
  [][GuardStep =>
       /\ resp'.route \in AdminRoutes => (resp'.code = 401 <=> ~IsAdminPrincipal(resp'.by))
       /\ resp'.route \in POSRoutes => (resp'.code = 401 <=> ~IsApprovedPOS(resp'.by))
       /\ resp'.code = 401
            => UNCHANGED <<posSystems, posCount, products, productCount, transactions,
                           checkout, cur, edit>>
       /\ cur' # cur => IsApprovedPOS(serializeUser(cur'.id, "pos"))
       /\ Len(checkout') > Len(checkout)
            => IsApprovedPOS(serializeUser(checkout'[Len(checkout')].data.posId, "pos"))
       /\ <<posSystems, products, transactions>>' # <<posSystems, products, transactions>>
            => resp'.route \in AdminRoutes \cup POSRoutes /\ resp'.code # 401]_vars

\* C18 witness: the session of a business that is no longer approved was refused at a
\* POS-only write, and an admin session was refused there too
C18_Witness ==
  /\ resp.route = "create-product" /\ resp.code = 401
  /\ resp.by = Owner
  /\ PosId(1) \in DOMAIN posSystems /\ ~IsApproved(PosId(1))

\* C19: a login against a malformed stored credential (no "." and so no salt, or a
\* hash part whose decoded length differs from the derived hash) is refused as bad
\* credentials, 401, and never answered with a server error
C19_MalformedIsFailure ==
  (/\ resp.route = "pos-login"
   /\ resp.id \in DOMAIN posSystems
   /\ Malformed(posSystems[resp.id].password))
    => resp.code = 401

\* C20: every persisted transaction has an id different from every other
\* transaction's id and a receipt number different from every other transaction's
\* receipt number
C20_UniqueIdAndReceipt ==
  \A i, j \in DOMAIN transactions :
    i # j => /\ transactions[i].id # transactions[j].id
             /\ transactions[i].receiptNumber # transactions[j].receiptNumber

\* C21: a currency update that returns success leaves the business's stored
\* currencySymbol equal to the symbol sent; an empty or blank symbol is rejected with
\* 400 and changes nothing
C21_CurrencyStored ==
  [][resp'.route = "currency" =>
       /\ resp'.code = 200 =>
            /\ resp'.id \in DOMAIN posSystems'
            /\ posSystems'[resp'.id].currencySymbol = resp'.arg[1]
       /\ trim(resp'.arg[1]) = "" => resp'.code = 400 /\ UNCHANGED posSystems]_vars

\* the approval fields of a document; approvedBy is an admin id or null, compared as text
ApprovalOf(system) == <<system.status, system.approvedAt, ToString(system.approvedBy)>>

\* C28: a currency update or business-info update leaves the business's status,
\* approvedAt and approvedBy unchanged
C28_SettingsKeepApproval ==
  [][(/\ resp'.route \in {"currency", "business-info"}
      /\ resp'.code = 200
      /\ resp'.id \in DOMAIN posSystems
      /\ resp'.id \in DOMAIN posSystems')
       => ApprovalOf(posSystems'[resp'.id]) = ApprovalOf(posSystems[resp'.id])]_vars

\* C22: the product listing of a business returns exactly the products whose posId is
\* that business and whose isActive is true
C22_ListsActiveOwned ==
  resp.route = "products" /\ resp.code = 200
    => resp.arg[1] = {p \in DOMAIN products :
                        products[p].posId = resp.id /\ products[p].isActive = "true"}

\* C27: a product update accepted from the owner never changes the product's posId,
\* whatever fields the request body carries
C27_UpdateKeepsOwner ==
  [][(resp'.route = "update-product" /\ resp'.code = 200 /\ resp'.id \in DOMAIN products)
       => /\ resp'.id \in DOMAIN products'
          /\ products'[resp'.id].posId = products[resp'.id].posId]_vars

\* the cart of request r names a product the store does not hold
HasUnknown(r) ==
  \E k \in DOMAIN checkout[r].data.items :
    checkout[r].data.items[k].productId \notin DOMAIN products

C24_OwnStockOnly ==
  [][\A p \in DOMAIN products :
       products'[p].stock # products[p].stock
         => \E r \in DOMAIN checkout :
              /\ checkout'[r] # checkout[r]
              /\ checkout[r].data.posId = products[p].posId]_vars

\* the quantity of p over the persisted transactions
Recorded(p) ==
  Sum([k \in DOMAIN transactions |-> QuantityOf(transactions[k].items, p)],
      DOMAIN transactions)

\* C25: with no checkout in flight, what each product's stock has dropped by since the
\* start equals the quantity of that product over all persisted transactions
C25_StockConserved ==
  (\A r \in DOMAIN checkout : Finished(r))
    => \A p \in DOMAIN products : Available(p) - products[p].stock = Recorded(p)

\* C26: no finished checkout has, on balance, added to any product's stock
C26_CheckoutNeverRestocks ==
  \A r \in DOMAIN checkout :
    Finished(r) => \A p \in ProductIds : checkout[r].taken[p] >= 0

\* C30: every adminStats result has totalPOS = pendingPOS + approvedPOS + rejectedPOS
C30_StatsAddUp ==
  resp.route = "stats" /\ resp.code = 200
    => resp.arg[1] = resp.arg[2] + resp.arg[3] + resp.arg[4]

\* C29: the posId of every persisted transaction and of every product just created is
\* the id of the principal that made the request, whatever posId the body carried
C29_PosIdIsPrincipal ==
  /\ \A k \in DOMAIN transactions :
       transactions[k].posId = checkout[transactions[k].req].by.id
  /\ resp.route = "create-product" /\ resp.code = 201
       => products[resp.id].posId = resp.by.id

\* C29 witness: a transaction is persisted for a request whose body named the other
\* business, and a product has just been created from such a body
C29_Witness ==
  /\ \E k \in DOMAIN transactions :
       LET r == transactions[k].req
       IN checkout[r].sent \in PosIds /\ checkout[r].sent # checkout[r].by.id
  /\ resp.route = "create-product" /\ resp.code = 201
  /\ resp.arg[1] \in PosIds /\ resp.arg[1] # resp.by.id

=============================================================================
